---- MODULE Spec2Model ----
(***************************************************************************)
(* Codebase Explorer backend (server.js): the /upload handler, the safe    *)
(* ZIP extractor and the TTL cleanup, as a state machine.                  *)
(*                                                                         *)
(* Strings are sequences of one-character strings, so that the path        *)
(* functions of the code (normalize, join, resolve, dirname, startsWith,   *)
(* includes) are computed character by character as Node's path.posix      *)
(* computes them.  The host is POSIX: path === path.posix, path.sep = "/". *)
(* One byte of the model stands for one unit of size; the limits are       *)
(* small numbers with the same ordering as the configured ones.            *)
(***************************************************************************)
EXTENDS Integers, Sequences, FiniteSets, TLC

(***************************************************************************)
(* Bounds of the model                                                     *)
(***************************************************************************)
MaxJobs == 2        \* concurrent uploads
MaxEntries == 3     \* entries read from one archive
MaxChunk == 2       \* largest chunk a read stream delivers
MaxDeclared == 3    \* largest declared uncompressedSize
MaxTime == 2        \* last value of the millisecond clock
MaxFiles == 3     \* files in one analysed list

Jobs == 1..MaxJobs

(***************************************************************************)
(* Strings                                                                 *)
(***************************************************************************)
SLASH == "/"
BACKSLASH == "\\"

Last(s) == s[Len(s)]
Front(s) == SubSeq(s, 1, Len(s) - 1)

StartsWith(s, pre) ==
  /\ Len(pre) <= Len(s)
  /\ SubSeq(s, 1, Len(pre)) = pre

Includes(s, sub) ==
  \E i \in 1..(Len(s) - Len(sub) + 1) : SubSeq(s, i, i + Len(sub) - 1) = sub

\* String.prototype.replace(/\\/g, "/")
ReplaceBackslashes(s) == [i \in DOMAIN s |-> IF s[i] = BACKSLASH THEN SLASH ELSE s[i]]

\* String.prototype.split(sep): the pieces between separators, empty ones kept
RECURSIVE Split(_, _)
Split(s, sep) ==
  IF s = <<>> THEN << <<>> >>
  ELSE LET r == Split(Tail(s), sep)
       IN  IF Head(s) = sep THEN << <<>> >> \o r
           ELSE << <<Head(s)>> \o Head(r) >> \o Tail(r)

\* Array.prototype.join(sep)
RECURSIVE JoinSegs(_, _)
JoinSegs(segs, sep) ==
  IF segs = <<>> THEN <<>>
  ELSE IF Len(segs) = 1 THEN segs[1]
  ELSE segs[1] \o <<sep>> \o JoinSegs(Tail(segs), sep)

DOTDOT == <<".", ".">>
DOT == <<".">>

(***************************************************************************)
(* Node's path.posix                                                       *)
(***************************************************************************)
\* normalizeString(path, allowAboveRoot, "/"): resolves "." and ".." segments
RECURSIVE NormalizeSegs(_, _, _)
NormalizeSegs(segs, res, allowAboveRoot) ==
  IF segs = <<>> THEN res
  ELSE LET seg == Head(segs)
           rest == Tail(segs)
       IN  IF seg = <<>> \/ seg = DOT
             THEN NormalizeSegs(rest, res, allowAboveRoot)
           ELSE IF seg = DOTDOT
             THEN IF res # <<>> /\ Last(res) # DOTDOT
                    THEN NormalizeSegs(rest, Front(res), allowAboveRoot)
                  ELSE IF allowAboveRoot
                    THEN NormalizeSegs(rest, Append(res, DOTDOT), allowAboveRoot)
                  ELSE NormalizeSegs(rest, res, allowAboveRoot)
           ELSE NormalizeSegs(rest, Append(res, seg), allowAboveRoot)

NormalizeString(p, allowAboveRoot) ==
  JoinSegs(NormalizeSegs(Split(p, SLASH), <<>>, allowAboveRoot), SLASH)

PosixIsAbsolute(p) == Len(p) > 0 /\ p[1] = SLASH

\* path.posix.normalize
PosixNormalize(p) ==
  IF p = <<>> THEN DOT
  ELSE LET isAbs == PosixIsAbsolute(p)
           trailing == Last(p) = SLASH
           n == NormalizeString(p, ~isAbs)
       IN  IF n = <<>>
             THEN IF isAbs THEN <<SLASH>> ELSE IF trailing THEN <<".", SLASH>> ELSE DOT
           ELSE (IF isAbs THEN <<SLASH>> ELSE <<>>) \o n \o (IF trailing THEN <<SLASH>> ELSE <<>>)

\* path.join(a, b): the non-empty arguments joined by "/" and normalized
PathJoin(a, b) ==
  IF a = <<>> /\ b = <<>> THEN DOT
  ELSE IF a = <<>> THEN PosixNormalize(b)
  ELSE IF b = <<>> THEN PosixNormalize(a)
  ELSE PosixNormalize(a \o <<SLASH>> \o b)

\* path.resolve(p) of an absolute p: normalized, no trailing separator
PathResolve(p) == <<SLASH>> \o NormalizeString(p, FALSE)

\* path.dirname
RECURSIVE StripTrailingSlashes(_)
StripTrailingSlashes(p) ==
  IF Len(p) > 1 /\ Last(p) = SLASH THEN StripTrailingSlashes(Front(p)) ELSE p

RECURSIVE CutAtLastSlash(_)
CutAtLastSlash(p) ==
  IF p = <<>> THEN <<>>
  ELSE IF Last(p) = SLASH THEN p
  ELSE CutAtLastSlash(Front(p))

PathDirname(p) ==
  LET q == CutAtLastSlash(StripTrailingSlashes(p))
  IN  IF q = <<>> THEN DOT
      ELSE IF q = <<SLASH>> THEN IF PosixIsAbsolute(p) THEN <<SLASH>> ELSE DOT
      ELSE StripTrailingSlashes(q)


(***************************************************************************)
(* Configuration (server.js, "Config" and "Directories")                   *)
(***************************************************************************)
\* Extraction limits, scaled: 2 files, 2 bytes per file, 3 bytes in total
MAX_EXTRACTED_FILES == 2
MAX_EXTRACTED_FILE_BYTES == 2
MAX_EXTRACTED_TOTAL_BYTES == 3
\* Retention, in ticks of the model's clock
CLEANUP_TTL_MS == 1

UPLOADS_DIR == <<SLASH, "u">>
EXTRACTED_DIR == <<SLASH, "e">>

UNSAFE_ZIP_PATH == "UNSAFE_ZIP_PATH"
ZIP_LIMITS_EXCEEDED == "ZIP_LIMITS_EXCEEDED"
\* any other rejection: a file-system error (EISDIR, ENOTDIR, ENOENT), a corrupt entry
OTHER_ERROR == "OTHER_ERROR"
NoError == "none"

(***************************************************************************)
(* Archive entries (unzipper's zipDirectory.files)                         *)
(***************************************************************************)
\* uncompressedSize missing from the entry
ABSENT == -1

RawPaths ==
  { <<"a">>,
    <<"b">>,
    <<"a", SLASH, "b">>,
    <<".", ".", SLASH, "a">>,
    <<"a", SLASH, ".", ".", SLASH, "b">>,
    <<"a", SLASH, ".", ".", SLASH, ".", ".", SLASH, "b">>,
    <<"a", SLASH, ".", ".">>,
    <<SLASH, "a">>,
    <<".", ".", BACKSLASH, "a">>,
    <<".", ".", "a">> }

FileEntries ==
  [path : RawPaths, type : {"File"}, uncompressedSize : {ABSENT} \cup (0..MaxDeclared)]

DirectoryEntries ==
  [path : {<<"a", SLASH>>, <<".", ".", SLASH, "a", SLASH>>},
   type : {"Directory"}, uncompressedSize : {0}]

Entries == FileEntries \cup DirectoryEntries

NoEntry == [path |-> <<>>, type |-> "None", uncompressedSize |-> 0]

\* Number(entry.uncompressedSize || 0)
DeclaredSize(e) == IF e.uncompressedSize = ABSENT THEN 0 ELSE e.uncompressedSize

NoLimits == [maxFiles |-> 0, maxFileBytes |-> 0, maxTotalBytes |-> 0]

\* req.file, and its absence
NoFile == [originalname |-> <<>>, path |-> <<>>]

\* what res.json sends: the status, ok, and which of tree, graph, stats and note it carries
NoResponse == [status |-> 0, ok |-> FALSE, carries |-> {}]

(***************************************************************************)
(* State                                                                   *)
(***************************************************************************)
VARIABLES
  now,                  \* Date.now()
  uploads,              \* files under UPLOADS_DIR: path -> the job whose upload wrote it
  dirs,                 \* directories on disk
  files,                \* files under EXTRACTED_DIR: path -> bytes on disk
  pc,                   \* where each request is
  reqFile,              \* req.file: originalname and path
  zipPath,              \* safeExtractZip's zipPath (the handler's archivePath)
  targetDir,            \* safeExtractZip's targetDir (extractionTargetDir)
  limits,               \* safeExtractZip's limits
  extractedTotalBytes,
  extractedFilesCount,
  idx,                  \* entries of zipDirectory.files consumed by the loop
  entry,                \* the loop's current entry
  destinationPath,
  writtenBytes,
  err,                  \* the error thrown to the handler's catch
  response,             \* what res.json sent
  outputs,              \* which of fileTree, importsGraph and stats the handler has built
  timers,               \* pending setTimeout callbacks of scheduleJobCleanup
  \* one run of the analysis of the handler (the filter and the three builders)
  at,                   \* the position in the analysis
  allExtractedFilesAbs, \* what walkDirectoryFiles returned, in its order
  fileContent,          \* path -> what fs.promises.readFile gives for it
  analyzedFilesAbs,     \* allExtractedFilesAbs without the ignored paths
  fileTree,             \* buildFileTreeFromPaths(...)
  importsGraph,         \* buildLocalImportsGraph(...)
  resolved,             \* the calls of resolveImportToRelativeFile and their results
  stats                 \* buildAnalysisStats(...)

analysisVars ==
  << at, allExtractedFilesAbs, fileContent, analyzedFilesAbs, fileTree,
     importsGraph, resolved, stats >>

serverVars ==
  << now, uploads, dirs, files, pc, reqFile, zipPath, targetDir, limits,
     extractedTotalBytes, extractedFilesCount, idx, entry, destinationPath,
     writtenBytes, err, response, outputs, timers >>

vars == << serverVars, analysisVars >>

extractVars ==
  << limits, extractedTotalBytes, extractedFilesCount, idx, entry,
     destinationPath, writtenBytes >>

(***************************************************************************)
(* File system                                                             *)
(***************************************************************************)
\* a directory and every directory above it
RECURSIVE WithAncestors(_)
WithAncestors(d) ==
  IF d = <<SLASH>> \/ d = DOT THEN {d} ELSE {d} \cup WithAncestors(PathDirname(d))

\* fs.promises.mkdir(d, {recursive: true}) fails when a file is in the way
MkdirFails(d) == \E p \in WithAncestors(d) : p \in DOMAIN files \/ p \in DOMAIN uploads

\* opening p for writing fails on a directory (EISDIR) and on a name ending in "/"
OpenForWriteFails(p) == p \in dirs \/ Last(p) = SLASH

\* a function with one more (or one replaced) mapping
Put(f, k, v) == [x \in DOMAIN f \cup {k} |-> IF x = k THEN v ELSE f[x]]

\* a function without some keys
Without(f, ks) == [x \in DOMAIN f \ ks |-> f[x]]


(***************************************************************************)
(* safeExtractZip(zipPath, targetDir, limits)                              *)
(***************************************************************************)
\* mutant of Throw: the error is recorded and the loop goes on
ThrowAndGoOn(j, e) ==
  /\ pc' = [pc EXCEPT ![j] = "loop"]
  /\ err' = [err EXCEPT ![j] = e]

\* a rejected promise or a throw reaches the handler's catch
Throw(j, e) ==
  /\ pc' = [pc EXCEPT ![j] = "thrown"]
  /\ err' = [err EXCEPT ![j] = e]

\* entry.path.replace(/\\/g, "/"), then path.posix.normalize
NormalizedRelPath(raw) == PosixNormalize(ReplaceBackslashes(raw))

\* mutant of RejectedByName: the absolute-path test is missing
RejectedByNameNoAbsolute(n) ==
  \/ StartsWith(n, DOTDOT)
  \/ Includes(n, <<SLASH, ".", ".", SLASH>>)

\* the first guard, on the normalized relative path
RejectedByName(n) ==
  \/ StartsWith(n, DOTDOT)
  \/ Includes(n, <<SLASH, ".", ".", SLASH>>)
  \/ PosixIsAbsolute(n)

\* the second guard, on the resolved destination
EscapesTarget(t, dest) ==
  LET resolvedTargetDir == PathResolve(t)
      resolvedDestinationPath == PathResolve(dest)
  IN  /\ ~StartsWith(resolvedDestinationPath, resolvedTargetDir \o <<SLASH>>)
      /\ resolvedDestinationPath # resolvedTargetDir

\* mutant of IsUnsafeZipPath: only absolute paths are refused
IsUnsafeZipPathAbsoluteOnly(t, raw) == PosixIsAbsolute(NormalizedRelPath(raw))

\* the entry is refused with UNSAFE_ZIP_PATH
IsUnsafeZipPath(t, raw) ==
  \/ RejectedByName(NormalizedRelPath(raw))
  \/ EscapesTarget(t, PathJoin(t, NormalizedRelPath(raw)))

\* mkdir(targetDir) and unzipper.Open.file(zipPath); the counters start at 0
SafeExtractZipOpen(j) ==
  /\ pc[j] = "extract"
  /\ IF MkdirFails(targetDir[j]) \/ zipPath[j] \notin DOMAIN uploads
       THEN /\ Throw(j, OTHER_ERROR)
            /\ UNCHANGED dirs
       ELSE /\ dirs' = dirs \cup WithAncestors(targetDir[j])
            /\ pc' = [pc EXCEPT ![j] = "loop"]
            /\ UNCHANGED err
  /\ extractedTotalBytes' = [extractedTotalBytes EXCEPT ![j] = 0]
  /\ extractedFilesCount' = [extractedFilesCount EXCEPT ![j] = 0]
  /\ UNCHANGED << now, uploads, files, reqFile, zipPath, targetDir, limits, idx,
                  entry, destinationPath, writtenBytes, response, outputs, timers >>
  /\ UNCHANGED analysisVars

\* mutant of OverFileCount: off by one
OverFileCountOffByOne(count, lim) == count > lim.maxFiles + 1

\* the count check, after the increment
OverFileCount(count, lim) == count > lim.maxFiles

\* mutant of ProcessEntry: the two path guards come before the limit checks
ProcessEntryPathFirst(j, e) ==
  LET count == extractedFilesCount[j] + 1
      uncompressedSize == DeclaredSize(e)
      total == extractedTotalBytes[j] + uncompressedSize
      isDir == e.type = "Directory"
      overCount == OverFileCount(count, limits[j])
      overFile == uncompressedSize > limits[j].maxFileBytes
      overTotal == total > limits[j].maxTotalBytes
      unsafe == IsUnsafeZipPath(targetDir[j], e.path)
  IN
  /\ pc[j] = "loop"
  /\ idx[j] < MaxEntries
  /\ idx' = [idx EXCEPT ![j] = @ + 1]
  /\ entry' = [entry EXCEPT ![j] = e]
  /\ extractedFilesCount' =
       IF isDir THEN extractedFilesCount ELSE [extractedFilesCount EXCEPT ![j] = count]
  /\ extractedTotalBytes' =
       IF isDir \/ overCount \/ overFile THEN extractedTotalBytes
       ELSE [extractedTotalBytes EXCEPT ![j] = total]
  /\ IF isDir THEN UNCHANGED << pc, err, destinationPath >>
     ELSE IF unsafe
       THEN Throw(j, UNSAFE_ZIP_PATH) /\ UNCHANGED destinationPath
     ELSE IF overCount \/ overFile \/ overTotal
       THEN Throw(j, ZIP_LIMITS_EXCEEDED) /\ UNCHANGED destinationPath
     ELSE /\ destinationPath' =
               [destinationPath EXCEPT ![j] = PathJoin(targetDir[j], NormalizedRelPath(e.path))]
          /\ pc' = [pc EXCEPT ![j] = "mkdir"]
          /\ UNCHANGED err
  /\ UNCHANGED << now, uploads, dirs, files, reqFile, zipPath, targetDir, limits,
                  writtenBytes, response, outputs, timers >>
  /\ UNCHANGED analysisVars

\* one iteration of the loop up to the first await: the skip of directories, the
\* count check, the declared-size checks and the two path guards
ProcessEntry(j, e) ==
  LET count == extractedFilesCount[j] + 1
      uncompressedSize == DeclaredSize(e)
      total == extractedTotalBytes[j] + uncompressedSize
      isDir == e.type = "Directory"
      overCount == OverFileCount(count, limits[j])
      overFile == uncompressedSize > limits[j].maxFileBytes
      overTotal == total > limits[j].maxTotalBytes
      unsafe == IsUnsafeZipPath(targetDir[j], e.path)
  IN
  /\ pc[j] = "loop"
  /\ idx[j] < MaxEntries
  /\ idx' = [idx EXCEPT ![j] = @ + 1]
  /\ entry' = [entry EXCEPT ![j] = e]
  /\ extractedFilesCount' =
       IF isDir THEN extractedFilesCount ELSE [extractedFilesCount EXCEPT ![j] = count]
  /\ extractedTotalBytes' =
       IF isDir \/ overCount \/ overFile THEN extractedTotalBytes
       ELSE [extractedTotalBytes EXCEPT ![j] = total]
  /\ IF isDir THEN UNCHANGED << pc, err, destinationPath >>
     ELSE IF overCount \/ overFile \/ overTotal
       THEN Throw(j, ZIP_LIMITS_EXCEEDED) /\ UNCHANGED destinationPath
     ELSE IF unsafe
       THEN Throw(j, UNSAFE_ZIP_PATH) /\ UNCHANGED destinationPath
     ELSE /\ destinationPath' =
               [destinationPath EXCEPT ![j] = PathJoin(targetDir[j], NormalizedRelPath(e.path))]
          /\ pc' = [pc EXCEPT ![j] = "mkdir"]
          /\ UNCHANGED err
  /\ UNCHANGED << now, uploads, dirs, files, reqFile, zipPath, targetDir, limits,
                  writtenBytes, response, outputs, timers >>
  /\ UNCHANGED analysisVars

\* fs.promises.mkdir(path.dirname(destinationPath), {recursive: true})
MkdirParent(j) ==
  /\ pc[j] = "mkdir"
  /\ IF MkdirFails(PathDirname(destinationPath[j]))
       THEN Throw(j, OTHER_ERROR) /\ UNCHANGED dirs
       ELSE /\ dirs' = dirs \cup WithAncestors(PathDirname(destinationPath[j]))
            /\ pc' = [pc EXCEPT ![j] = "open"]
            /\ UNCHANGED err
  /\ UNCHANGED << now, uploads, files, reqFile, zipPath, targetDir, extractVars,
                  response, outputs, timers >>
  /\ UNCHANGED analysisVars

\* entry.stream(), fs.createWriteStream(destinationPath) and the pipe: the file is
\* created or truncated, or the write stream reports an error
OpenStreams(j) ==
  /\ pc[j] = "open"
  /\ IF OpenForWriteFails(destinationPath[j])
       THEN Throw(j, OTHER_ERROR) /\ UNCHANGED files
       ELSE /\ files' = Put(files, destinationPath[j], 0)
            /\ pc' = [pc EXCEPT ![j] = "streaming"]
            /\ UNCHANGED err
  /\ writtenBytes' = [writtenBytes EXCEPT ![j] = 0]
  /\ UNCHANGED << now, uploads, dirs, reqFile, zipPath, targetDir, limits,
                  extractedTotalBytes, extractedFilesCount, idx, entry,
                  destinationPath, response, outputs, timers >>
  /\ UNCHANGED analysisVars

\* mutant of OverFileCap: off by one
OverFileCapOffByOne(written, lim) == written > lim.maxFileBytes + 1

\* the cap of the "data" listener
OverFileCap(written, lim) == written > lim.maxFileBytes

\* readStream "data": the listener of the code runs before the pipe's, so a chunk
\* that crosses the cap finds the write stream destroyed and is not written
OnData(j, n) ==
  /\ pc[j] = "streaming"
  /\ writtenBytes' = [writtenBytes EXCEPT ![j] = @ + n]
  /\ IF OverFileCap(writtenBytes[j] + n, limits[j])
       THEN Throw(j, ZIP_LIMITS_EXCEEDED) /\ UNCHANGED files
       ELSE /\ files' = [files EXCEPT ![destinationPath[j]] = @ + n]
            /\ UNCHANGED << pc, err >>
  /\ UNCHANGED << now, uploads, dirs, reqFile, zipPath, targetDir, limits,
                  extractedTotalBytes, extractedFilesCount, idx, entry,
                  destinationPath, response, outputs, timers >>
  /\ UNCHANGED analysisVars

\* writeStream "finish": the promise resolves and the loop goes on
OnFinish(j) ==
  /\ pc[j] = "streaming"
  /\ pc' = [pc EXCEPT ![j] = "loop"]
  /\ UNCHANGED << now, uploads, dirs, files, reqFile, zipPath, targetDir,
                  extractVars, err, response, outputs, timers >>
  /\ UNCHANGED analysisVars

\* readStream "error" (a corrupt entry, an archive that is gone)
OnStreamError(j) ==
  /\ pc[j] = "streaming"
  /\ Throw(j, OTHER_ERROR)
  /\ UNCHANGED << now, uploads, dirs, files, reqFile, zipPath, targetDir,
                  extractVars, response, outputs, timers >>
  /\ UNCHANGED analysisVars

\* zipDirectory.files is exhausted: safeExtractZip returns
LoopEnd(j) ==
  /\ pc[j] = "loop"
  /\ pc' = [pc EXCEPT ![j] = "extracted"]
  /\ UNCHANGED << now, uploads, dirs, files, reqFile, zipPath, targetDir,
                  extractVars, err, response, outputs, timers >>
  /\ UNCHANGED analysisVars

(***************************************************************************)
(* The upload (multer) and the /upload handler                             *)
(***************************************************************************)
\* String.prototype.toLowerCase, on the letters the model uses
LowerChar(c) ==
  CASE c = "Z" -> "z" [] c = "I" -> "i" [] c = "P" -> "p"
    [] c = "J" -> "j" [] c = "S" -> "s" [] c = "B" -> "b" [] OTHER -> c

ToLowerCase(s) == [i \in DOMAIN s |-> LowerChar(s[i])]

\* the part of p after its last "/"
Basename(p) == Last(Split(p, SLASH))

RECURSIVE LastIndexOf(_, _)
LastIndexOf(s, c) ==
  IF s = <<>> THEN 0 ELSE IF Last(s) = c THEN Len(s) ELSE LastIndexOf(Front(s), c)

\* path.extname: from the last "." of the last segment, unless there is none, or
\* it is the segment's first character, or the segment is ".."
ExtName(p) ==
  LET b == Basename(p)
      i == LastIndexOf(b, ".")
  IN  IF i <= 1 \/ b = DOTDOT THEN <<>> ELSE SubSeq(b, i, Len(b))

ZIP_EXT == <<".", "z", "i", "p">>
ALLOWED_ARCHIVE_EXTENSIONS == {ZIP_EXT, <<".", "r", "a", "r">>, <<".", "7", "z">>}

INVALID_FILE_TYPE == "INVALID_FILE_TYPE"

\* storageEngine: destination and filename
StoredPath(t, originalname) ==
  PathJoin(UPLOADS_DIR, <<ToString(t), "-">> \o originalname)

\* multer: the fileFilter, then the archive is written under UPLOADS_DIR
Upload(j, originalname) ==
  /\ pc[j] = "idle"
  /\ IF ToLowerCase(ExtName(originalname)) \notin ALLOWED_ARCHIVE_EXTENSIONS
       THEN /\ Throw(j, INVALID_FILE_TYPE)
            /\ UNCHANGED << uploads, reqFile >>
       ELSE /\ uploads' = Put(uploads, StoredPath(now, originalname), j)
            /\ reqFile' = [reqFile EXCEPT ![j] =
                 [originalname |-> originalname, path |-> StoredPath(now, originalname)]]
            /\ pc' = [pc EXCEPT ![j] = "uploaded"]
            /\ UNCHANGED err
  /\ UNCHANGED << now, dirs, files, zipPath, targetDir, extractVars, response,
                  outputs, timers >>
  /\ UNCHANGED analysisVars

\* a request with no "archive" part: multer leaves req.file unset
UploadNothing(j) ==
  /\ pc[j] = "idle"
  /\ pc' = [pc EXCEPT ![j] = "uploaded"]
  /\ UNCHANGED << now, uploads, dirs, files, reqFile, zipPath, targetDir,
                  extractVars, err, response, outputs, timers >>
  /\ UNCHANGED analysisVars

\* path.join(EXTRACTED_DIR, jobId), jobId = crypto.randomUUID(): one per job
JobDir(j) == PathJoin(EXTRACTED_DIR, <<ToString(j)>>)

ConfiguredLimits ==
  [maxFiles |-> MAX_EXTRACTED_FILES,
   maxFileBytes |-> MAX_EXTRACTED_FILE_BYTES,
   maxTotalBytes |-> MAX_EXTRACTED_TOTAL_BYTES]

\* what the catch-less paths of the handler send
Reply(status, ok, carries) == [status |-> status, ok |-> ok, carries |-> carries]

\* the handler up to the call of safeExtractZip
HandlerStart(j) ==
  /\ pc[j] = "uploaded"
  /\ IF reqFile[j] = NoFile
       THEN /\ response' = [response EXCEPT ![j] = Reply(400, FALSE, {})]
            /\ pc' = [pc EXCEPT ![j] = "responded"]
            /\ UNCHANGED << zipPath, targetDir, limits >>
     ELSE IF ToLowerCase(ExtName(reqFile[j].originalname)) # ZIP_EXT
       THEN /\ response' = [response EXCEPT ![j] = Reply(200, TRUE, {"note"})]
            /\ pc' = [pc EXCEPT ![j] = "responded"]
            /\ UNCHANGED << zipPath, targetDir, limits >>
     ELSE /\ zipPath' = [zipPath EXCEPT ![j] = reqFile[j].path]
          /\ targetDir' = [targetDir EXCEPT ![j] = JobDir(j)]
          /\ limits' = [limits EXCEPT ![j] = ConfiguredLimits]
          /\ pc' = [pc EXCEPT ![j] = "extract"]
          /\ UNCHANGED response
  /\ UNCHANGED << now, uploads, dirs, files, reqFile, extractedTotalBytes,
                  extractedFilesCount, idx, entry, destinationPath, writtenBytes,
                  err, outputs, timers >>
  /\ UNCHANGED analysisVars

\* walkDirectoryFiles(extractionTargetDir)
WalkDirectoryFiles(j) ==
  /\ pc[j] = "extracted"
  /\ IF targetDir[j] \notin dirs
       THEN Throw(j, OTHER_ERROR)
       ELSE pc' = [pc EXCEPT ![j] = "walked"] /\ UNCHANGED err
  /\ UNCHANGED << now, uploads, dirs, files, reqFile, zipPath, targetDir,
                  extractVars, response, outputs, timers >>
  /\ UNCHANGED analysisVars

\* the ignore filter and buildFileTreeFromPaths, then the call of
\* buildLocalImportsGraph, which the handler awaits
BuildOutputs(j) ==
  /\ pc[j] = "walked"
  /\ outputs' = [outputs EXCEPT ![j] = {"tree"}]
  /\ pc' = [pc EXCEPT ![j] = "graph"]
  /\ UNCHANGED << now, uploads, dirs, files, reqFile, zipPath, targetDir,
                  extractVars, err, response, timers >>
  /\ UNCHANGED analysisVars

\* scheduleJobCleanup: one setTimeout of CLEANUP_TTL_MS
NewTimer(j) ==
  [job |-> j, archivePath |-> zipPath[j], extractionTargetDir |-> targetDir[j],
   due |-> now + CLEANUP_TTL_MS, step |-> "archive"]

\* the graph is back: buildAnalysisStats, scheduleJobCleanup and the response
FinishAnalysis(j) ==
  /\ pc[j] = "graph"
  /\ outputs' = [outputs EXCEPT ![j] = {"tree", "graph", "stats"}]
  /\ timers' = timers \cup {NewTimer(j)}
  /\ response' = [response EXCEPT ![j] = Reply(200, TRUE, {"tree", "graph", "stats"})]
  /\ pc' = [pc EXCEPT ![j] = "responded"]
  /\ UNCHANGED << now, uploads, dirs, files, reqFile, zipPath, targetDir,
                  extractVars, err >>
  /\ UNCHANGED analysisVars

\* the status the central error handler answers with
ErrorStatus(e) ==
  CASE e = INVALID_FILE_TYPE -> 400
    [] e = UNSAFE_ZIP_PATH -> 400
    [] e = ZIP_LIMITS_EXCEEDED -> 413
    [] OTHER -> 500

\* mutant of ErrorHandler: the failure is answered as a success, with what was built
ErrorHandlerOk(j) ==
  /\ pc[j] = "thrown"
  /\ response' = [response EXCEPT ![j] = Reply(200, TRUE, outputs[j])]
  /\ pc' = [pc EXCEPT ![j] = "responded"]
  /\ UNCHANGED << now, uploads, dirs, files, reqFile, zipPath, targetDir,
                  extractVars, err, outputs, timers >>
  /\ UNCHANGED analysisVars

\* catch (err) { next(err) } and the central error handler
ErrorHandler(j) ==
  /\ pc[j] = "thrown"
  /\ response' = [response EXCEPT ![j] = Reply(ErrorStatus(err[j]), FALSE, {})]
  /\ pc' = [pc EXCEPT ![j] = "responded"]
  /\ UNCHANGED << now, uploads, dirs, files, reqFile, zipPath, targetDir,
                  extractVars, err, outputs, timers >>
  /\ UNCHANGED analysisVars

(***************************************************************************)
(* Cleanup                                                                 *)
(***************************************************************************)
\* p is d or lies under d
AtOrUnder(p, d) == p = d \/ StartsWith(p, d \o <<SLASH>>)

\* mutant of CleanupArchive: removing a path that is gone throws, and the catch
\* around both removals ends the callback
CleanupArchiveThrowsIfGone(t) ==
  /\ t \in timers
  /\ t.step = "archive"
  /\ now >= t.due
  /\ IF t.archivePath \in DOMAIN uploads
       THEN /\ uploads' = Without(uploads, {t.archivePath})
            /\ timers' = (timers \ {t}) \cup {[t EXCEPT !.step = "dir"]}
       ELSE /\ uploads' = uploads
            /\ timers' = timers \ {t}
  /\ UNCHANGED << now, dirs, files, pc, reqFile, zipPath, targetDir, extractVars,
                  err, response, outputs >>
  /\ UNCHANGED analysisVars

\* the timer fires: safeRemovePath(archivePath), which returns at once when the
\* path does not exist and removes it with force otherwise
CleanupArchive(t) ==
  /\ t \in timers
  /\ t.step = "archive"
  /\ now >= t.due
  /\ uploads' = Without(uploads, {t.archivePath})
  /\ timers' = (timers \ {t}) \cup {[t EXCEPT !.step = "dir"]}
  /\ UNCHANGED << now, dirs, files, pc, reqFile, zipPath, targetDir, extractVars,
                  err, response, outputs >>
  /\ UNCHANGED analysisVars

\* then safeRemovePath(extractionTargetDir): the directory and all below it
CleanupDir(t) ==
  /\ t \in timers
  /\ t.step = "dir"
  /\ files' = Without(files, {p \in DOMAIN files : AtOrUnder(p, t.extractionTargetDir)})
  /\ dirs' = {d \in dirs : ~AtOrUnder(d, t.extractionTargetDir)}
  /\ timers' = timers \ {t}
  /\ UNCHANGED << now, uploads, pc, reqFile, zipPath, targetDir, extractVars,
                  err, response, outputs >>
  /\ UNCHANGED analysisVars

\* a millisecond passes
Tick ==
  /\ now < MaxTime
  /\ now' = now + 1
  /\ UNCHANGED << uploads, dirs, files, pc, reqFile, zipPath, targetDir,
                  extractVars, err, response, outputs, timers >>
  /\ UNCHANGED analysisVars

(***************************************************************************)
(* The analysis: the ignore filter                                         *)
(***************************************************************************)
\* Array.prototype.filter(Boolean) on the pieces of a split
NonEmpty(segs) == SelectSeq(segs, LAMBDA x : x # <<>>)

RECURSIVE CommonPrefixLen(_, _)
CommonPrefixLen(a, b) ==
  IF a = <<>> \/ b = <<>> THEN 0
  ELSE IF Head(a) # Head(b) THEN 0
  ELSE 1 + CommonPrefixLen(Tail(a), Tail(b))

\* path.relative(from, to) of two absolute paths: up from `from` to the common
\* ancestor, then down to `to`
PathRelative(from, to) ==
  LET f == NonEmpty(Split(PathResolve(from), SLASH))
      t == NonEmpty(Split(PathResolve(to), SLASH))
      n == CommonPrefixLen(f, t)
  IN  JoinSegs([i \in 1..(Len(f) - n) |-> DOTDOT] \o SubSeq(t, n + 1, Len(t)), SLASH)

\* path.relative(rootDir, absPath).replace(/\\/g, "/")
RelPath(rootDir, absPath) == ReplaceBackslashes(PathRelative(rootDir, absPath))

ignoredFolderNames ==
  << <<"n", "o", "d", "e", "_", "m", "o", "d", "u", "l", "e", "s">>,
     <<".", "g", "i", "t">>,
     <<"d", "i", "s", "t">>,
     <<"b", "u", "i", "l", "d">>,
     <<"c", "o", "v", "e", "r", "a", "g", "e">>,
     <<".", "n", "e", "x", "t">>,
     <<".", "n", "u", "x", "t">>,
     <<".", "s", "v", "e", "l", "t", "e", "-", "k", "i", "t">>,
     <<".", "c", "a", "c", "h", "e">>,
     <<".", "t", "u", "r", "b", "o">>,
     <<".", "v", "i", "t", "e">>,
     <<"o", "u", "t">> >>

\* mutant of IsIgnored: only the first piece of the path is looked at
IsIgnoredAtTopLevel(relPath) ==
  \E k \in DOMAIN ignoredFolderNames : Split(relPath, SLASH)[1] = ignoredFolderNames[k]

\* ignoredFolderNames.some((folder) => relPath.split("/").includes(folder))
IsIgnored(relPath) ==
  \E k \in DOMAIN ignoredFolderNames :
    \E i \in DOMAIN Split(relPath, SLASH) : Split(relPath, SLASH)[i] = ignoredFolderNames[k]

\* the extraction directory of the analysed job
rootDir == JobDir(1)

\* allExtractedFilesAbs.filter(...)
FilterIgnored ==
  /\ at = "walked"
  /\ analyzedFilesAbs' =
       SelectSeq(allExtractedFilesAbs, LAMBDA absPath : ~IsIgnored(RelPath(rootDir, absPath)))
  /\ at' = "filtered"
  /\ UNCHANGED << allExtractedFilesAbs, fileContent, fileTree, importsGraph, resolved,
                  stats, serverVars >>

(***************************************************************************)
(* The analysis: buildFileTreeFromPaths(rootDir, filePathsAbs)             *)
(***************************************************************************)
\* one code unit each: U+00E9 (e with acute) and U+0301 (combining acute)
E_ACUTE == "U+00E9"
COMBINING_ACUTE == "U+0301"

\* the canonical decomposition of a name
RECURSIVE Decompose(_)
Decompose(s) ==
  IF s = <<>> THEN <<>>
  ELSE (IF Head(s) = E_ACUTE THEN <<"e", COMBINING_ACUTE>> ELSE <<Head(s)>>)
       \o Decompose(Tail(s))

\* the characters of the names, in the order of the root collation: punctuation,
\* symbols, digits, letters
CollationOrder ==
  << "_", "-", ".", "=", ">", "1", "2", "3", "4", "5", "6", "7", "8", "9",
     "a", "b", "c", "d", "e", "i", "j", "l", "n", "o", "s", "t", "u", "x" >>

RECURSIVE SecondaryKey(_)
SecondaryKey(d) ==
  IF d = <<>> THEN <<>>
  ELSE IF Len(d) > 1 /\ d[2] = COMBINING_ACUTE THEN <<1>> \o SecondaryKey(Tail(Tail(d)))
  ELSE <<0>> \o SecondaryKey(Tail(d))

\* the three levels of the collation key of a name: base letters, accents, case
CollationKey(s) ==
  LET base == SelectSeq(Decompose(s), LAMBDA c : c # COMBINING_ACUTE)
      Weight(c) == CHOOSE i \in DOMAIN CollationOrder : CollationOrder[i] = LowerChar(c)
  IN  << [i \in DOMAIN base |-> Weight(base[i])],
         SecondaryKey(Decompose(s)),
         [i \in DOMAIN base |-> IF LowerChar(base[i]) # base[i] THEN 1 ELSE 0] >>

RECURSIVE CompareKeys(_, _)
CompareKeys(a, b) ==
  IF a = <<>> THEN (IF b = <<>> THEN 0 ELSE -1)
  ELSE IF b = <<>> THEN 1
  ELSE IF Head(a) < Head(b) THEN -1
  ELSE IF Head(a) > Head(b) THEN 1
  ELSE CompareKeys(Tail(a), Tail(b))

\* String.prototype.localeCompare: the collation keys compared level by level;
\* canonically equivalent names have the same key and compare equal (0)
LocaleCompare(a, b) ==
  LET ka == CollationKey(a)
      kb == CollationKey(b)
  IN  IF CompareKeys(ka[1], kb[1]) # 0 THEN CompareKeys(ka[1], kb[1])
      ELSE IF CompareKeys(ka[2], kb[2]) # 0 THEN CompareKeys(ka[2], kb[2])
      ELSE CompareKeys(ka[3], kb[3])

FolderNode(name, children) == [name |-> name, type |-> "folder", children |-> children]

FileNode(name, relPath) == [name |-> name, type |-> "file", path |-> relPath]

\* const root = { name: "root", type: "folder", children: [] }
TreeRoot == FolderNode(<<"r", "o", "o", "t">>, <<>>)

\* mutant of CompareNodes: by name only
CompareNodesByName(a, b) == LocaleCompare(a.name, b.name)

\* the comparator of both sorts: folders first, then by name
CompareNodes(a, b) ==
  IF a.type = b.type THEN LocaleCompare(a.name, b.name)
  ELSE IF a.type = "folder" THEN -1 ELSE 1

\* Array.prototype.sort with CompareNodes: stable
RECURSIVE InsertNode(_, _)
InsertNode(sorted, x) ==
  IF sorted = <<>> THEN <<x>>
  ELSE IF CompareNodes(Last(sorted), x) <= 0 THEN Append(sorted, x)
  ELSE Append(InsertNode(Front(sorted), x), Last(sorted))

RECURSIVE SortNodes(_)
SortNodes(nodes) ==
  IF nodes = <<>> THEN <<>> ELSE InsertNode(SortNodes(Front(nodes)), Last(nodes))

\* parentNode.children.find(child => child.type === "folder" && child.name === folderName):
\* its index, 0 when there is none
IndexOfFolder(children, folderName) ==
  LET is == {i \in DOMAIN children :
               children[i].type = "folder" /\ children[i].name = folderName}
  IN  IF is = {} THEN 0 ELSE CHOOSE i \in is : \A k \in is : i <= k

\* the children of parentNode after getOrCreateFolderNode(parentNode, folderName)
getOrCreateFolderNode(children, folderName) ==
  IF IndexOfFolder(children, folderName) # 0 THEN children
  ELSE SortNodes(Append(children, FolderNode(folderName, <<>>)))

\* the inner loop over the parts of one path, from currentNode down
RECURSIVE InsertPath(_, _, _)
InsertPath(currentNode, parts, relPath) ==
  IF parts = <<>> THEN currentNode
  ELSE IF Len(parts) = 1
    THEN [currentNode EXCEPT !.children = Append(@, FileNode(parts[1], relPath))]
  ELSE LET children == getOrCreateFolderNode(currentNode.children, parts[1])
           i == IndexOfFolder(children, parts[1])
       IN  [currentNode EXCEPT
              !.children = [children EXCEPT ![i] = InsertPath(@, Tail(parts), relPath)]]

\* the outer loop over filePathsAbs
RECURSIVE InsertAll(_, _, _)
InsertAll(root, dir, filePathsAbs) ==
  IF filePathsAbs = <<>> THEN root
  ELSE LET relPath == RelPath(dir, Head(filePathsAbs))
           parts == NonEmpty(Split(relPath, SLASH))
       IN  InsertAll(InsertPath(root, parts, relPath), dir, Tail(filePathsAbs))

RECURSIVE sortTree(_)
sortTree(node) ==
  IF node.type = "file" THEN node
  ELSE LET sorted == SortNodes(node.children)
       IN  [node EXCEPT !.children = [i \in DOMAIN sorted |-> sortTree(sorted[i])]]

buildFileTreeFromPaths(dir, filePathsAbs) == sortTree(InsertAll(TreeRoot, dir, filePathsAbs))

\* const fileTree = buildFileTreeFromPaths(extractionTargetDir, analyzedFilesAbs)
BuildTree ==
  /\ at = "filtered"
  /\ fileTree' = buildFileTreeFromPaths(rootDir, analyzedFilesAbs)
  /\ at' = "tree"
  /\ UNCHANGED << allExtractedFilesAbs, fileContent, analyzedFilesAbs, importsGraph,
                  resolved, stats, serverVars >>

(***************************************************************************)
(* The analysis: buildLocalImportsGraph(rootDir, filePathsAbs)             *)
(***************************************************************************)
JS == <<".", "j", "s">>
JSX == <<".", "j", "s", "x">>
TS == <<".", "t", "s">>
TSX == <<".", "t", "s", "x">>
INDEX == <<"i", "n", "d", "e", "x">>

CODE_EXTENSIONS == {JS, JSX, TS, TSX}

\* what resolveImportToRelativeFile returns when no candidate is known
NULL == <<>>

isLocalImportSpecifier(spec) ==
  StartsWith(spec, <<".", SLASH>>) \/ StartsWith(spec, <<".", ".", SLASH>>)

\* the order of a Set: each value at the place of its first add
RECURSIVE InsertionOrder(_)
InsertionOrder(s) ==
  IF s = <<>> THEN <<>>
  ELSE LET d == InsertionOrder(Front(s))
       IN  IF \E i \in DOMAIN d : d[i] = Last(s) THEN d ELSE Append(d, Last(s))

\* the captures of one of the three regular expressions, in the order of the text;
\* a text is the sequence of its import statements, each of one of the three
\* forms: import ... from "x" ("from"), import "x" ("bare"), require("x")
Matches(text, kind) ==
  LET sel == SelectSeq(text, LAMBDA st : st.kind = kind)
  IN  [i \in DOMAIN sel |-> sel[i].spec]

extractImportSpecifiers(text) ==
  InsertionOrder(Matches(text, "from") \o Matches(text, "bare") \o Matches(text, "require"))

\* mutant of Candidates: the .ts probes before the .js probes
CandidatesTsFirst(base) ==
  << base, base \o TS, base \o TSX, base \o JS, base \o JSX,
     PathJoin(base, INDEX \o TS), PathJoin(base, INDEX \o TSX),
     PathJoin(base, INDEX \o JS), PathJoin(base, INDEX \o JSX) >>

\* const candidates = [...]
Candidates(base) ==
  << base, base \o JS, base \o JSX, base \o TS, base \o TSX,
     PathJoin(base, INDEX \o JS), PathJoin(base, INDEX \o JSX),
     PathJoin(base, INDEX \o TS), PathJoin(base, INDEX \o TSX) >>

resolveImportToRelativeFile(fromFileRelPath, importSpec, existingRelPathsSet) ==
  LET fromDir == PathDirname(ReplaceBackslashes(fromFileRelPath))
      base == PosixNormalize(PathJoin(fromDir, ReplaceBackslashes(importSpec)))
      candidates == Candidates(base)
      hits == {i \in DOMAIN candidates : candidates[i] \in existingRelPathsSet}
  IN  IF hits = {} THEN NULL
      ELSE candidates[CHOOSE i \in hits : \A k \in hits : i <= k]

IsCodeFile(absPath) == ToLowerCase(ExtName(absPath)) \in CODE_EXTENSIONS

\* relPaths: the code files, relative to rootDir, in the order of filePathsAbs
CodeRelPaths(dir, filePathsAbs) ==
  LET codeFilesAbs == SelectSeq(filePathsAbs, IsCodeFile)
  IN  [i \in DOMAIN codeFilesAbs |-> RelPath(dir, codeFilesAbs[i])]

\* mutant of RelPathsSet: every analyzed file is known, code or not
RelPathsSetOfAllFiles(dir, filePathsAbs) ==
  {RelPath(dir, filePathsAbs[i]) : i \in DOMAIN filePathsAbs}

\* const relPathsSet = new Set(relPaths)
RelPathsSet(dir, filePathsAbs) ==
  {CodeRelPaths(dir, filePathsAbs)[i] : i \in DOMAIN CodeRelPaths(dir, filePathsAbs)}

\* mutant of EdgeKeySeen: no key is ever found
EdgeKeySeenNever(edgeKeySet, edgeKey) == FALSE

\* edgeKeySet.has(edgeKey)
EdgeKeySeen(edgeKeySet, edgeKey) == edgeKey \in edgeKeySet

\* the loop over the local specifiers of one file
RECURSIVE AddEdges(_, _, _, _)
AddEdges(acc, fromRelPath, specs, relPathsSet) ==
  IF specs = <<>> THEN acc
  ELSE LET targetRelPath == resolveImportToRelativeFile(fromRelPath, Head(specs), relPathsSet)
           edgeKey == fromRelPath \o <<"=", ">">> \o targetRelPath
           next == IF targetRelPath = NULL \/ EdgeKeySeen(acc.edgeKeySet, edgeKey) THEN acc
                   ELSE [edges |-> Append(acc.edges,
                                          [source |-> fromRelPath, target |-> targetRelPath]),
                         edgeKeySet |-> acc.edgeKeySet \cup {edgeKey}]
       IN  AddEdges(next, fromRelPath, Tail(specs), relPathsSet)

\* the specifiers a file is scanned for
LocalImportSpecs(content) ==
  SelectSeq(extractImportSpecifiers(content.text), isLocalImportSpecifier)

\* mutant of ScanFile: a file that cannot be read is scanned all the same
ScanFileAnyway(acc, fromRelPath, content, relPathsSet) ==
  AddEdges(acc, fromRelPath, LocalImportSpecs(content), relPathsSet)

\* one iteration of the loop over the code files: readFile in try/catch, with
\* `continue` on an error
ScanFile(acc, fromRelPath, content, relPathsSet) ==
  IF ~content.readable THEN acc
  ELSE AddEdges(acc, fromRelPath, LocalImportSpecs(content), relPathsSet)

RECURSIVE ScanFiles(_, _, _, _, _)
ScanFiles(acc, dir, codeFilesAbs, contents, relPathsSet) ==
  IF codeFilesAbs = <<>> THEN acc
  ELSE ScanFiles(ScanFile(acc, RelPath(dir, Head(codeFilesAbs)),
                          contents[Head(codeFilesAbs)], relPathsSet),
                 dir, Tail(codeFilesAbs), contents, relPathsSet)

buildLocalImportsGraph(dir, filePathsAbs, contents) ==
  LET relPaths == CodeRelPaths(dir, filePathsAbs)
      scanned == ScanFiles([edges |-> <<>>, edgeKeySet |-> {}], dir,
                           SelectSeq(filePathsAbs, IsCodeFile), contents,
                           RelPathsSet(dir, filePathsAbs))
  IN  [nodes |-> [i \in DOMAIN relPaths |-> [id |-> relPaths[i]]],
       edges |-> scanned.edges]

\* every call of resolveImportToRelativeFile the scan makes, with its result
ResolveCalls(dir, filePathsAbs, contents) ==
  LET known == RelPathsSet(dir, filePathsAbs)
      read == {p \in {filePathsAbs[i] : i \in DOMAIN filePathsAbs} :
                 IsCodeFile(p) /\ contents[p].readable}
  IN  UNION { { [from |-> RelPath(dir, p),
                 spec |-> LocalImportSpecs(contents[p])[i],
                 known |-> known,
                 target |-> resolveImportToRelativeFile(
                              RelPath(dir, p), LocalImportSpecs(contents[p])[i], known)]
                : i \in DOMAIN LocalImportSpecs(contents[p]) } : p \in read }

\* const importsGraph = await buildLocalImportsGraph(extractionTargetDir, analyzedFilesAbs)
BuildGraph ==
  /\ at = "tree"
  /\ importsGraph' = buildLocalImportsGraph(rootDir, analyzedFilesAbs, fileContent)
  /\ resolved' = ResolveCalls(rootDir, analyzedFilesAbs, fileContent)
  /\ at' = "graph"
  /\ UNCHANGED << allExtractedFilesAbs, fileContent, analyzedFilesAbs, fileTree,
                  stats, serverVars >>

(***************************************************************************)
(* The analysis: buildAnalysisStats(rootDir, filePathsAbs, graph)          *)
(***************************************************************************)
NONE == <<"(", "n", "o", "n", "e", ")">>

\* mutant of ExtKey: the extension as it is spelled
ExtKeyAsSpelled(relPath) ==
  IF ExtName(relPath) = <<>> THEN NONE ELSE ExtName(relPath)

\* path.extname(relPath).toLowerCase() || "(none)"
ExtKey(relPath) ==
  IF ToLowerCase(ExtName(relPath)) = <<>> THEN NONE ELSE ToLowerCase(ExtName(relPath))

RECURSIVE CountByExtension(_, _, _)
CountByExtension(counts, dir, filePathsAbs) ==
  IF filePathsAbs = <<>> THEN counts
  ELSE LET ext == ExtKey(RelPath(dir, Head(filePathsAbs)))
           old == IF ext \in DOMAIN counts THEN counts[ext] ELSE 0
       IN  CountByExtension(Put(counts, ext, old + 1), dir, Tail(filePathsAbs))

\* a Map is the sequence of its entries, in the order the keys were first set
MapIndex(m, key) ==
  IF \E i \in DOMAIN m : m[i].id = key
    THEN CHOOSE i \in DOMAIN m : m[i].id = key
    ELSE 0

\* degreeByNode.get(key) || 0
MapGet(m, key) == IF MapIndex(m, key) = 0 THEN 0 ELSE m[MapIndex(m, key)].degree

\* degreeByNode.set(key, value)
MapSet(m, key, value) ==
  IF MapIndex(m, key) = 0 THEN Append(m, [id |-> key, degree |-> value])
  ELSE [m EXCEPT ![MapIndex(m, key)].degree = value]

\* mutant of CountEdge: only the source of an edge gains a degree
CountEdgeSourceOnly(m, e) == MapSet(m, e.source, MapGet(m, e.source) + 1)

\* the body of the loop over graph.edges
CountEdge(m, e) ==
  LET withSource == MapSet(m, e.source, MapGet(m, e.source) + 1)
  IN  MapSet(withSource, e.target, MapGet(withSource, e.target) + 1)

\* for (const node of graph.nodes) degreeByNode.set(node.id, 0)
RECURSIVE ZeroDegrees(_, _)
ZeroDegrees(m, nodes) ==
  IF nodes = <<>> THEN m ELSE ZeroDegrees(MapSet(m, Head(nodes).id, 0), Tail(nodes))

RECURSIVE CountEdges(_, _)
CountEdges(m, edges) ==
  IF edges = <<>> THEN m ELSE CountEdges(CountEdge(m, Head(edges)), Tail(edges))

\* Array.prototype.sort((a, b) => b[1] - a[1]): stable, by degree descending
RECURSIVE InsertEntry(_, _)
InsertEntry(sorted, x) ==
  IF sorted = <<>> THEN <<x>>
  ELSE IF Last(sorted).degree - x.degree >= 0 THEN Append(sorted, x)
  ELSE Append(InsertEntry(Front(sorted), x), Last(sorted))

RECURSIVE SortByDegree(_)
SortByDegree(entries) ==
  IF entries = <<>> THEN <<>> ELSE InsertEntry(SortByDegree(Front(entries)), Last(entries))

\* .slice(0, 8)
TOP_DEGREE == 8

buildAnalysisStats(dir, filePathsAbs, graph) ==
  LET degreeByNode == CountEdges(ZeroDegrees(<<>>, graph.nodes), graph.edges)
      sorted == SortByDegree(degreeByNode)
  IN  [exts |-> CountByExtension(<<>>, dir, filePathsAbs),
       graph |-> [nodes |-> Len(graph.nodes),
                  edges |-> Len(graph.edges),
                  topDegree |-> SubSeq(sorted, 1, IF Len(sorted) < TOP_DEGREE
                                                         THEN Len(sorted) ELSE TOP_DEGREE)]]

\* const stats = buildAnalysisStats(extractionTargetDir, analyzedFilesAbs, importsGraph)
BuildStats ==
  /\ at = "graph"
  /\ stats' = buildAnalysisStats(rootDir, analyzedFilesAbs, importsGraph)
  /\ at' = "stats"
  /\ UNCHANGED << allExtractedFilesAbs, fileContent, analyzedFilesAbs, fileTree,
                  importsGraph, resolved, serverVars >>

\* neither the filter nor a builder has run
NothingBuilt ==
  /\ analyzedFilesAbs = <<>>
  /\ fileTree = TreeRoot
  /\ importsGraph = [nodes |-> <<>>, edges |-> <<>>]
  /\ resolved = {}
  /\ stats = [exts |-> <<>>, graph |-> [nodes |-> 0, edges |-> 0, topDegree |-> <<>>]]

\* no analysis is running
AnalysisIdle ==
  /\ at = "idle"
  /\ allExtractedFilesAbs = <<>>
  /\ fileContent = <<>>
  /\ NothingBuilt

(***************************************************************************)
(* One call of safeExtractZip, for any limits and any archive              *)
(***************************************************************************)
\* the limits a caller may pass: the cap of one file is no larger than the total cap
LimitChoices ==
  { l \in [maxFiles : 1..MAX_EXTRACTED_FILES,
           maxFileBytes : 1..MAX_EXTRACTED_FILE_BYTES,
           maxTotalBytes : 1..MAX_EXTRACTED_TOTAL_BYTES] :
      l.maxFileBytes <= l.maxTotalBytes }

InitExtract ==
  /\ now = 0
  /\ uploads = [p \in {UPLOADS_DIR \o <<SLASH, "0", "-", "p", ".", "z", "i", "p">>} |-> 1]
  /\ dirs = {<<SLASH>>, UPLOADS_DIR, EXTRACTED_DIR}
  /\ files = << >>
  /\ pc = [j \in Jobs |-> IF j = 1 THEN "extract" ELSE "idle"]
  /\ reqFile = [j \in Jobs |->
       IF j = 1 THEN [originalname |-> <<"p", ".", "z", "i", "p">>,
                      path |-> UPLOADS_DIR \o <<SLASH, "0", "-", "p", ".", "z", "i", "p">>]
       ELSE NoFile]
  /\ zipPath = [j \in Jobs |->
       IF j = 1 THEN UPLOADS_DIR \o <<SLASH, "0", "-", "p", ".", "z", "i", "p">> ELSE <<>>]
  /\ targetDir = [j \in Jobs |-> IF j = 1 THEN JobDir(1) ELSE <<>>]
  /\ \E l \in LimitChoices : limits = [j \in Jobs |-> IF j = 1 THEN l ELSE NoLimits]
  /\ extractedTotalBytes = [j \in Jobs |-> 0]
  /\ extractedFilesCount = [j \in Jobs |-> 0]
  /\ idx = [j \in Jobs |-> 0]
  /\ entry = [j \in Jobs |-> NoEntry]
  /\ destinationPath = [j \in Jobs |-> <<>>]
  /\ writtenBytes = [j \in Jobs |-> 0]
  /\ err = [j \in Jobs |-> NoError]
  /\ response = [j \in Jobs |-> NoResponse]
  /\ outputs = [j \in Jobs |-> {}]
  /\ timers = {}
  /\ AnalysisIdle

NextExtract ==
  \/ SafeExtractZipOpen(1)
  \/ \E e \in Entries : ProcessEntry(1, e)
  \/ MkdirParent(1)
  \/ OpenStreams(1)
  \/ \E n \in 1..MaxChunk : OnData(1, n)
  \/ OnFinish(1)
  \/ OnStreamError(1)
  \/ LoopEnd(1)

SpecExtract == InitExtract /\ [][NextExtract]_vars



(***************************************************************************)
(* The server: concurrent uploads, their jobs and their cleanups           *)
(***************************************************************************)
OriginalNames ==
  { <<"p", ".", "z", "i", "p">>,
    <<"q", ".", "r", "a", "r">>,
    <<"n", ".", "t", "x", "t">> }

\* the entries the archives of concurrent jobs are made of
JobEntries ==
  { [path |-> <<"a">>, type |-> "File", uncompressedSize |-> 1],
    [path |-> <<".", ".", SLASH, "a">>, type |-> "File", uncompressedSize |-> 0],
    [path |-> <<"a", SLASH>>, type |-> "Directory", uncompressedSize |-> 0] }

\* the server has started: no request yet
ServerInit ==
  /\ now = 0
  /\ uploads = << >>
  /\ dirs = {<<SLASH>>, UPLOADS_DIR, EXTRACTED_DIR}
  /\ files = << >>
  /\ pc = [j \in Jobs |-> "idle"]
  /\ reqFile = [j \in Jobs |-> NoFile]
  /\ zipPath = [j \in Jobs |-> <<>>]
  /\ targetDir = [j \in Jobs |-> <<>>]
  /\ limits = [j \in Jobs |-> NoLimits]
  /\ extractedTotalBytes = [j \in Jobs |-> 0]
  /\ extractedFilesCount = [j \in Jobs |-> 0]
  /\ idx = [j \in Jobs |-> 0]
  /\ entry = [j \in Jobs |-> NoEntry]
  /\ destinationPath = [j \in Jobs |-> <<>>]
  /\ writtenBytes = [j \in Jobs |-> 0]
  /\ err = [j \in Jobs |-> NoError]
  /\ response = [j \in Jobs |-> NoResponse]
  /\ outputs = [j \in Jobs |-> {}]
  /\ timers = {}

Init == ServerInit /\ AnalysisIdle

Next ==
  \/ \E j \in Jobs, n \in OriginalNames : Upload(j, n)
  \/ \E j \in Jobs : UploadNothing(j)
  \/ \E j \in Jobs : HandlerStart(j)
  \/ \E j \in Jobs : SafeExtractZipOpen(j)
  \/ \E j \in Jobs, e \in JobEntries : ProcessEntry(j, e)
  \/ \E j \in Jobs : MkdirParent(j)
  \/ \E j \in Jobs : OpenStreams(j)
  \/ \E j \in Jobs, n \in 1..MaxChunk : OnData(j, n)
  \/ \E j \in Jobs : OnFinish(j)
  \/ \E j \in Jobs : OnStreamError(j)
  \/ \E j \in Jobs : LoopEnd(j)
  \/ \E j \in Jobs : WalkDirectoryFiles(j)
  \/ \E j \in Jobs : BuildOutputs(j)
  \/ \E j \in Jobs : FinishAnalysis(j)
  \/ \E j \in Jobs : ErrorHandler(j)
  \/ \E t \in timers : CleanupArchive(t)
  \/ \E t \in timers : CleanupDir(t)
  \/ Tick

Spec == Init /\ [][Next]_vars

(***************************************************************************)
(* One request, from the upload to the cleanup, for any archive            *)
(***************************************************************************)
NextRequest ==
  \/ \E n \in OriginalNames : Upload(1, n)
  \/ UploadNothing(1)
  \/ HandlerStart(1)
  \/ SafeExtractZipOpen(1)
  \/ \E e \in Entries : ProcessEntry(1, e)
  \/ MkdirParent(1)
  \/ OpenStreams(1)
  \/ \E n \in 1..MaxChunk : OnData(1, n)
  \/ OnFinish(1)
  \/ OnStreamError(1)
  \/ LoopEnd(1)
  \/ WalkDirectoryFiles(1)
  \/ BuildOutputs(1)
  \/ FinishAnalysis(1)
  \/ ErrorHandler(1)
  \/ \E t \in timers : CleanupArchive(t)
  \/ \E t \in timers : CleanupDir(t)
  \/ Tick

SpecRequest == Init /\ [][NextRequest]_vars

(***************************************************************************)
(* Two requests that upload the same name, each with a one-file archive    *)
(***************************************************************************)
Pair == {1, 2}

NextPair ==
  \/ \E j \in Pair : Upload(j, <<"p", ".", "z", "i", "p">>)
  \/ \E j \in Pair : HandlerStart(j)
  \/ \E j \in Pair : SafeExtractZipOpen(j)
  \/ \E j \in Pair :
        ProcessEntry(j, [path |-> <<"a">>, type |-> "File", uncompressedSize |-> 1])
  \/ \E j \in Pair : MkdirParent(j)
  \/ \E j \in Pair : OpenStreams(j)
  \/ \E j \in Pair : OnData(j, 1)
  \/ \E j \in Pair : OnFinish(j)
  \/ \E j \in Pair : OnStreamError(j)
  \/ \E j \in Pair : LoopEnd(j)
  \/ \E j \in Pair : WalkDirectoryFiles(j)
  \/ \E j \in Pair : BuildOutputs(j)
  \/ \E j \in Pair : FinishAnalysis(j)
  \/ \E j \in Pair : ErrorHandler(j)
  \/ \E t \in timers : CleanupArchive(t)
  \/ \E t \in timers : CleanupDir(t)
  \/ Tick

SpecPair == Init /\ [][NextPair]_vars

(***************************************************************************)
(* One run of the analysis, for any list of walked files                   *)
(***************************************************************************)
\* the absolute path of a file of the job
Abs(relPath) == rootDir \o <<SLASH>> \o relPath

Range(s) == {s[i] : i \in DOMAIN s}

\* what walkDirectoryFiles can return for up to n files of the pool, in any order:
\* the files of a directory tree, so no two are the same and none lies below another
WalkedLists(pool, n) ==
  {s \in UNION {[1..k -> Range(pool)] : k \in 0..n} :
     \A i, k \in DOMAIN s : i # k => s[i] # s[k] /\ ~StartsWith(s[k], s[i] \o <<SLASH>>)}

\* the same, in the order of the pool or in the reverse order
WalkedListsInOrder(pool, n) ==
  LET IndexIn(x) == CHOOSE i \in DOMAIN pool : pool[i] = x
  IN  {s \in WalkedLists(pool, n) :
         \/ \A i \in 1..(Len(s) - 1) : IndexIn(s[i]) < IndexIn(s[i + 1])
         \/ \A i \in 1..(Len(s) - 1) : IndexIn(s[i]) > IndexIn(s[i + 1])}

\* one import statement of a text: import ... from "x" ("from"), import "x"
\* ("bare") or require("x") ("require")
St(kind, spec) == [kind |-> kind, spec |-> spec]

\* what a file holds, and whether fs.promises.readFile can read it
Content(readable, text) == [readable |-> readable, text |-> text]

\* the ways to give each file of s one of its contents
RECURSIVE ContentMaps(_, _)
ContentMaps(s, choices) ==
  IF s = <<>> THEN {<<>>}
  ELSE {Put(m, Abs(Head(s)), c) : m \in ContentMaps(Tail(s), choices), c \in choices[Head(s)]}

\* the walk has returned one of the lists, each file with one of its contents
AnalysisStart(lists, choices) ==
  /\ at = "walked"
  /\ \E s \in lists :
       /\ allExtractedFilesAbs = [i \in DOMAIN s |-> Abs(s[i])]
       /\ fileContent \in ContentMaps(s, choices)
  /\ NothingBuilt

NextAnalysis ==
  \/ FilterIgnored
  \/ BuildTree
  \/ BuildGraph
  \/ BuildStats

\* file trees: a file that sorts before a folder, nested folders, and the name
\* "é" in its two spellings, as a file and as a folder
InitTree ==
  LET TreePool ==
        << <<"a">>,
           <<"b">>,
           <<"c", SLASH, "b">>,
           <<"c", SLASH, "a", SLASH, "b">>,
           <<E_ACUTE>>,
           <<"e", COMBINING_ACUTE>>,
           <<"e", COMBINING_ACUTE, SLASH, "a">> >>
  IN  /\ ServerInit
      /\ AnalysisStart(WalkedLists(TreePool, MaxFiles),
                       [relPath \in Range(TreePool) |-> {Content(TRUE, <<>>)}])

SpecTree == InitTree /\ [][NextAnalysis]_vars

\* a source file a/b.js with its imports, and the files the imports can name:
\* the nine candidates of "./c", a file above, a .json file, a file under an
\* ignored directory, a file without extension, a file with an upper-case extension
InitGraph ==
  LET AB == <<"a", SLASH, "b", ".", "j", "s">>
      AC == <<"a", SLASH, "c", ".", "j", "s">>
      C == <<"c", ".", "j", "s">>
      GraphPool ==
        << AB,
           AC,
           <<"a", SLASH, "c", ".", "j", "s", "x">>,
           <<"a", SLASH, "c", ".", "t", "s">>,
           <<"a", SLASH, "c", ".", "t", "s", "x">>,
           <<"a", SLASH, "c", SLASH, "i", "n", "d", "e", "x", ".", "j", "s">>,
           <<"a", SLASH, "c", SLASH, "i", "n", "d", "e", "x", ".", "j", "s", "x">>,
           <<"a", SLASH, "c", SLASH, "i", "n", "d", "e", "x", ".", "t", "s">>,
           <<"a", SLASH, "c", SLASH, "i", "n", "d", "e", "x", ".", "t", "s", "x">>,
           C,
           <<"a", SLASH, "c", ".", "j", "s", "o", "n">>,
           <<"o", "u", "t", SLASH, "c", ".", "j", "s">>,
           <<"a", SLASH, "c">>,
           <<"a", SLASH, "d", ".", "J", "S">> >>
      ImportsC == << St("from", <<".", SLASH, "c">>) >>
      TextsOfAB ==
        { <<>>,
          ImportsC,
          << St("from", <<".", SLASH, "c">>),
             St("require", <<".", SLASH, "c", ".", "j", "s">>),
             St("bare", <<".", SLASH, "c">>),
             St("from", <<".", SLASH, "c">>) >>,
          << St("bare", <<".", SLASH, "c", ".", "j", "s", "o", "n">>),
             St("require", <<".", ".", SLASH, "o", "u", "t", SLASH, "c">>),
             St("from", <<".", ".", SLASH, ".", ".", SLASH, "c">>),
             St("from", <<"c">>) >>,
          << St("from", <<".", SLASH, "b">>),
             St("require", <<".", ".", SLASH, "c">>) >>,
          << St("from", <<".", SLASH, "d">>),
             St("bare", <<".", SLASH, "d", ".", "J", "S">>) >> }
      ImportsAB == << St("from", <<".", SLASH, "a", SLASH, "b">>) >>
      GraphContents ==
        [relPath \in Range(GraphPool) |->
           IF relPath = AB
             THEN {Content(TRUE, t) : t \in TextsOfAB} \cup {Content(FALSE, ImportsC)}
           ELSE IF relPath = C
             THEN {Content(TRUE, <<>>), Content(TRUE, ImportsAB), Content(FALSE, ImportsAB)}
           ELSE IF relPath = AC
             THEN {Content(TRUE, <<>>),
                   Content(TRUE, << St("require", <<".", SLASH, "b", ".", "j", "s">>) >>)}
           ELSE {Content(TRUE, <<>>)}]
  IN  /\ ServerInit
      /\ AnalysisStart(WalkedListsInOrder(GraphPool, MaxFiles), GraphContents)

SpecGraph == InitGraph /\ [][NextAnalysis]_vars

\* the files 1.js, 2.js, ...: three of them or one more than topDegree holds, in
\* ascending or descending order; the first three import some of the others
InitStats ==
  LET Digits == <<"1", "2", "3", "4", "5", "6", "7", "8", "9">>
      StatsPool == [i \in 1..(TOP_DEGREE + 1) |-> <<Digits[i]>> \o JS]
      Import(kind, i) == St(kind, <<".", SLASH, Digits[i]>>)
      StatsLists ==
        { SubSeq(StatsPool, 1, 3),
          StatsPool,
          [i \in 1..3 |-> StatsPool[4 - i]],
          [i \in DOMAIN StatsPool |-> StatsPool[Len(StatsPool) + 1 - i]] }
      StatsContents ==
        [relPath \in Range(StatsPool) |->
           IF relPath \in {StatsPool[1], StatsPool[2], StatsPool[3]}
             THEN { Content(TRUE, <<>>),
                    Content(TRUE, << Import("from", 2) >>),
                    Content(TRUE, << Import("from", 3) >>),
                    Content(TRUE, << Import("from", 2), Import("require", 3) >>),
                    Content(TRUE, << Import("from", 1) >>),
                    Content(TRUE, << Import("from", Len(StatsPool)) >>) }
           ELSE IF relPath = StatsPool[Len(StatsPool)]
             THEN {Content(TRUE, <<>>), Content(TRUE, << Import("from", 8) >>)}
           ELSE {Content(TRUE, <<>>)}]
  IN  /\ ServerInit
      /\ AnalysisStart(StatsLists, StatsContents)

SpecStats == InitStats /\ [][NextAnalysis]_vars

\* files with names of their own: files under an ignored directory, at the top
\* and deeper; files that are themselves called "out" and "build"; files whose
\* names hold "=>"; and the files that import them
InitNames ==
  LET A == <<"a", ".", "j", "s">>
      ARROW == <<"=", ">">>
      AA == A \o ARROW \o A
      AB == A \o ARROW \o <<"b", ".", "j", "s">>
      BA == <<"b", ".", "j", "s">> \o ARROW \o A
      OC == <<"o", "u", "t", SLASH, "c", ".", "j", "s">>
      BOC == <<"b", SLASH>> \o OC
      BC == <<"b", SLASH, "c", ".", "j", "s">>
      NamesPool ==
        << A, AA, AB, BA, BC, BOC, <<"b", SLASH, "o", "u", "t">>,
           <<"b", "u", "i", "l", "d">>, OC >>
      NamesContents ==
        [relPath \in Range(NamesPool) |->
           IF relPath = A
             THEN { Content(TRUE, <<>>),
                    Content(TRUE, << St("from", <<".", SLASH>> \o AA) >>),
                    Content(TRUE, << St("from", <<".", SLASH>> \o BA) >>),
                    Content(TRUE, << St("from", <<".", SLASH, "o", "u", "t", SLASH, "c">>),
                                     St("require", <<".", SLASH>> \o BOC) >>),
                    Content(TRUE, << St("bare", <<".", SLASH, "b", "u", "i", "l", "d">>),
                                     St("from", <<".", SLASH, "b", SLASH, "o", "u", "t">>) >>) }
           ELSE IF relPath \in {AA, AB}
             THEN {Content(TRUE, <<>>), Content(TRUE, << St("from", <<".", SLASH>> \o A) >>)}
           ELSE IF relPath = BC
             THEN {Content(TRUE, <<>>),
                   Content(TRUE, << St("from", <<".", SLASH, "o", "u", "t", SLASH, "c">>) >>)}
           ELSE IF relPath = OC
             THEN {Content(TRUE, <<>>), Content(TRUE, << St("from", <<".", ".", SLASH, "a">>) >>)}
           ELSE IF relPath = BOC
             THEN {Content(TRUE, <<>>),
                   Content(TRUE, << St("from", <<".", ".", SLASH, ".", ".", SLASH, "a">>) >>)}
           ELSE {Content(TRUE, <<>>)}]
  IN  /\ ServerInit
      /\ AnalysisStart(WalkedListsInOrder(NamesPool, MaxFiles), NamesContents)

SpecNames == InitNames /\ [][NextAnalysis]_vars

(***************************************************************************)
(* Properties of safeExtractZip                                            *)
(***************************************************************************)
\* p lies strictly inside root: below it, and not root itself
StrictlyInside(p, root) == StartsWith(PathResolve(p), PathResolve(root) \o <<SLASH>>)

\* the files on disk under a job's extraction directory
FilesOf(j) == {p \in DOMAIN files : StrictlyInside(p, targetDir[j])}

RECURSIVE SumBytes(_)
SumBytes(ps) ==
  IF ps = {} THEN 0
  ELSE LET p == CHOOSE x \in ps : TRUE IN files[p] + SumBytes(ps \ {p})

Failed(j, e) == pc[j] \in {"thrown", "responded"} /\ err[j] = e

\* the count and declared-size checks let the current entry through
WithinDeclaredLimits(j) ==
  /\ extractedFilesCount[j] <= limits[j].maxFiles
  /\ DeclaredSize(entry[j]) <= limits[j].maxFileBytes
  /\ extractedTotalBytes[j] <= limits[j].maxTotalBytes

\* C1: every file the extractor has created lies strictly inside the target root
\* of the job that extracts: never the root itself, never outside it.
C1_FilesInsideRoot ==
  \A p \in DOMAIN files :
    \E j \in Jobs : targetDir[j] # <<>> /\ StrictlyInside(p, targetDir[j])

\* files are on disk, and an entry that escapes the root, or resolves to the root
\* itself, has been turned down
C1_Witness ==
  /\ DOMAIN files # {}
  /\ \/ Failed(1, UNSAFE_ZIP_PATH)
     \/ Failed(1, OTHER_ERROR) /\ destinationPath[1] = targetDir[1]

\* the raw path has a ".." segment, or is absolute
RawHasParentSegment(raw) ==
  \E i \in DOMAIN Split(ReplaceBackslashes(raw), SLASH) :
    Split(ReplaceBackslashes(raw), SLASH)[i] = DOTDOT

RawIsAbsolute(raw) == PosixIsAbsolute(ReplaceBackslashes(raw))

\* C2 as stated, for an entry that the count and declared-size checks let through:
\* a file entry whose raw path has a ".." segment anywhere, or is absolute, makes
\* safeExtractZip fail with UNSAFE_ZIP_PATH.
C2_Original ==
  \A j \in Jobs :
    (/\ entry[j].type = "File"
     /\ WithinDeclaredLimits(j)
     /\ (RawHasParentSegment(entry[j].path) \/ RawIsAbsolute(entry[j].path)))
      => Failed(j, UNSAFE_ZIP_PATH)

\* C2, amended: a file entry that passes the count and declared-size checks and
\* whose normalized path begins with ".." or is absolute makes safeExtractZip fail
\* with UNSAFE_ZIP_PATH; an entry that passed the path checks has a normalized path
\* of neither kind; and no file is written outside the target root.
C2_Amended ==
  /\ \A j \in Jobs :
       LET n == NormalizedRelPath(entry[j].path) IN
       /\ (/\ entry[j].type = "File"
           /\ WithinDeclaredLimits(j)
           /\ (StartsWith(n, DOTDOT) \/ PosixIsAbsolute(n)))
            => Failed(j, UNSAFE_ZIP_PATH)
       /\ pc[j] \in {"mkdir", "open", "streaming"}
            => ~StartsWith(n, DOTDOT) /\ ~PosixIsAbsolute(n)
  /\ \A p \in DOMAIN files : \E j \in Jobs : StrictlyInside(p, targetDir[j])

\* an absolute entry was refused after an earlier file was written
C2_Witness ==
  /\ Failed(1, UNSAFE_ZIP_PATH)
  /\ PosixIsAbsolute(NormalizedRelPath(entry[1].path))
  /\ DOMAIN files # {}

\* C3: when the file counter exceeds maxFiles the extraction has failed with
\* ZIP_LIMITS_EXCEEDED and nothing is being created for that entry; at most
\* maxFiles files are on disk.
C3_CountLimit ==
  \A j \in Jobs :
    /\ extractedFilesCount[j] > limits[j].maxFiles => Failed(j, ZIP_LIMITS_EXCEEDED)
    /\ targetDir[j] # <<>> => Cardinality(FilesOf(j)) <= limits[j].maxFiles

\* entry maxFiles + 1 was refused with maxFiles files on disk
C3_Witness ==
  /\ extractedFilesCount[1] = limits[1].maxFiles + 1
  /\ Failed(1, ZIP_LIMITS_EXCEEDED)
  /\ Cardinality(FilesOf(1)) = limits[1].maxFiles

\* C4: when the bytes streamed for an entry exceed maxFileBytes the extraction
\* has failed with ZIP_LIMITS_EXCEEDED, whatever size the entry declared, and the
\* chunk that crossed the cap was not written.
C4_StreamedFileCap ==
  \A j \in Jobs :
    /\ writtenBytes[j] > limits[j].maxFileBytes => Failed(j, ZIP_LIMITS_EXCEEDED)
    /\ \A p \in FilesOf(j) : files[p] <= limits[j].maxFileBytes

\* the cap was crossed while streaming an entry that declared no size, or less
C4_Witness ==
  /\ writtenBytes[1] > limits[1].maxFileBytes
  /\ DeclaredSize(entry[1]) < writtenBytes[1]
  /\ entry[1].uncompressedSize \in {ABSENT, 0, 1}
  /\ Failed(1, ZIP_LIMITS_EXCEEDED)

\* C5 as stated: the bytes written under the target root never exceed maxTotalBytes.
C5_TotalBytesOnDisk ==
  \A j \in Jobs : targetDir[j] # <<>> => SumBytes(FilesOf(j)) <= limits[j].maxTotalBytes



\* the error of the first pre-check of a file entry that fails, in the order:
\* count, declared size of the file, declared running total, normalized path,
\* resolved destination; NoError when all pass
FirstFailure(count, e, totalBefore, lim, t) ==
  IF count > lim.maxFiles THEN ZIP_LIMITS_EXCEEDED
  ELSE IF DeclaredSize(e) > lim.maxFileBytes THEN ZIP_LIMITS_EXCEEDED
  ELSE IF totalBefore + DeclaredSize(e) > lim.maxTotalBytes THEN ZIP_LIMITS_EXCEEDED
  ELSE IF RejectedByName(NormalizedRelPath(e.path)) THEN UNSAFE_ZIP_PATH
  ELSE IF EscapesTarget(t, PathJoin(t, NormalizedRelPath(e.path))) THEN UNSAFE_ZIP_PATH
  ELSE NoError

\* C22: the step that takes an entry creates nothing on disk; a directory entry
\* changes no counter and raises no error, whatever its path; a file entry is
\* counted and then refused with the error of the first pre-check that fails, in
\* the order count, declared size, declared total, path, or else goes on to the
\* mkdir; a directory or a byte is created for an entry only after all its
\* pre-checks have passed.
C22_CheckOrder ==
  [][ /\ idx'[1] = idx[1] + 1 =>
           /\ dirs' = dirs /\ files' = files
           /\ IF entry'[1].type = "Directory"
                THEN /\ extractedFilesCount' = extractedFilesCount
                     /\ extractedTotalBytes' = extractedTotalBytes
                     /\ pc' = pc /\ err' = err
                ELSE LET first == FirstFailure(extractedFilesCount[1] + 1, entry'[1],
                                               extractedTotalBytes[1], limits[1],
                                               targetDir[1])
                     IN  /\ extractedFilesCount'[1] = extractedFilesCount[1] + 1
                         /\ IF first = NoError
                              THEN pc'[1] = "mkdir" /\ err' = err
                              ELSE pc'[1] = "thrown" /\ err'[1] = first
      /\ (pc[1] # "extract" /\ (dirs' # dirs \/ files' # files)) =>
           /\ pc[1] \in {"mkdir", "open", "streaming"}
           /\ entry[1].type = "File"
           /\ FirstFailure(extractedFilesCount[1], entry[1],
                           extractedTotalBytes[1] - DeclaredSize(entry[1]), limits[1],
                           targetDir[1]) = NoError
    ]_vars

\* after a directory entry that was skipped, a file entry whose path is unsafe
\* and whose declared size is over the cap of one file is refused for the size,
\* and nothing was written
C22_Witness ==
  /\ pc[1] = "thrown"
  /\ err[1] = ZIP_LIMITS_EXCEEDED
  /\ entry[1].type = "File"
  /\ IsUnsafeZipPath(targetDir[1], entry[1].path)
  /\ DeclaredSize(entry[1]) > limits[1].maxFileBytes
  /\ idx[1] = 2 /\ extractedFilesCount[1] = 1
  /\ files = << >>

(***************************************************************************)
(* Properties of the /upload handler and of the cleanup                    *)
(***************************************************************************)
\* the job's extraction directory, or something in it, is on disk
DirOnDisk(j) == targetDir[j] # <<>> /\ (targetDir[j] \in dirs \/ FilesOf(j) # {})

\* the archive the job's upload stored is on disk
ArchiveOnDisk(j) == reqFile[j] # NoFile /\ reqFile[j].path \in DOMAIN uploads

TimerPending(j) == \E t \in timers : t.job = j

AnalysisKeys == {"tree", "graph", "stats"}

\* C6: once safeExtractZip has failed with UNSAFE_ZIP_PATH or ZIP_LIMITS_EXCEEDED,
\* no further entry is read or counted and the job's files on disk stay as they are.
C6_NothingAfterFailure ==
  [][\A j \in Jobs :
       err[j] \in {UNSAFE_ZIP_PATH, ZIP_LIMITS_EXCEEDED} =>
         /\ idx'[j] = idx[j]
         /\ entry'[j] = entry[j]
         /\ extractedFilesCount'[j] = extractedFilesCount[j]
         /\ extractedTotalBytes'[j] = extractedTotalBytes[j]
         /\ \A p \in DOMAIN files \cup DOMAIN files' :
              StrictlyInside(p, targetDir[j]) =>
                p \in DOMAIN files /\ p \in DOMAIN files' /\ files'[p] = files[p]]_vars

\* the extraction failed with entries left to read and files of earlier entries on
\* disk, and the request went on to its response
C6_Witness ==
  /\ err[1] \in {UNSAFE_ZIP_PATH, ZIP_LIMITS_EXCEEDED}
  /\ pc[1] = "responded"
  /\ idx[1] < MaxEntries
  /\ \E p \in FilesOf(1) : files[p] > 0

\* C7 as stated: when the failure response of a job is sent, the job's extraction
\* directory has been deleted.
C7_FailedJobDirDeleted ==
  \A j \in Jobs :
    (pc[j] = "responded" /\ err[j] # NoError /\ targetDir[j] # <<>>) => ~DirOnDisk(j)

\* C8: a response that carries tree, graph or stats is ok, carries all three, and
\* belongs to a job whose extraction and analysis ran to the end with no error; a
\* job in which a step threw answers ok:false with none of them; nothing is sent
\* before the job is through.
C8_AllOrNothing ==
  \A j \in Jobs :
    /\ response[j].carries \cap AnalysisKeys # {} =>
         /\ response[j].ok
         /\ AnalysisKeys \subseteq response[j].carries
         /\ outputs[j] = AnalysisKeys
         /\ err[j] = NoError
         /\ pc[j] = "responded"
    /\ (pc[j] = "responded" /\ err[j] # NoError) =>
         /\ ~response[j].ok
         /\ response[j].carries = {}
    /\ pc[j] # "responded" => response[j] = NoResponse

\* the extraction failed partway, with files on disk, and the job answered ok:false
C8_Witness ==
  /\ pc[1] = "responded"
  /\ err[1] \in {UNSAFE_ZIP_PATH, ZIP_LIMITS_EXCEEDED, OTHER_ERROR}
  /\ FilesOf(1) # {}
  /\ response[1] = Reply(ErrorStatus(err[1]), FALSE, {})

\* C9 as stated: two jobs have each their own stored archive and their own
\* extraction directory.
C9_JobsShareNothing ==
  \A j, k \in Jobs :
    j # k =>
      /\ (reqFile[j] # NoFile /\ reqFile[k] # NoFile) => reqFile[j].path # reqFile[k].path
      /\ (targetDir[j] # <<>> /\ targetDir[k] # <<>>) => targetDir[j] # targetDir[k]

\* C10 as stated, as the final result: once a job has answered and no cleanup of
\* it is pending, nothing will delete anything of it any more, so its archive
\* and its extraction directory must be gone.
C10_ArtifactsDeleted ==
  \A j \in Jobs :
    (pc[j] = "responded" /\ ~TimerPending(j)) => ~ArchiveOnDisk(j) /\ ~DirOnDisk(j)

(***************************************************************************)
(* Properties of the cleanup                                               *)
(***************************************************************************)
\* scheduleJobCleanup was called for the job
CleanupScheduled(j) == pc[j] = "responded" /\ outputs[j] = AnalysisKeys

\* C11: a cleanup is never run before the retention time is over; once it has run
\* to its end the job's archive and the job's extraction directory, with all
\* below it, are gone, also when the archive was already gone as it fired; the
\* archive is removed first, the directory second.
C11_CleanupDeletesBoth ==
  \A j \in Jobs :
    CleanupScheduled(j) =>
      /\ \A t \in timers :
           t.job = j =>
             /\ now < t.due => t.step = "archive"
             /\ t.step = "archive" => DirOnDisk(j)
             /\ t.step = "dir" => ~ArchiveOnDisk(j)
      /\ ~TimerPending(j) => ~ArchiveOnDisk(j) /\ ~DirOnDisk(j)

\* two jobs had the same archive path; both cleanups have run, so the second one
\* found the archive gone, and both extraction directories are deleted
C11_Witness ==
  \E j, k \in Jobs :
    /\ j # k
    /\ CleanupScheduled(j) /\ CleanupScheduled(k)
    /\ reqFile[j].path = reqFile[k].path
    /\ ~TimerPending(j) /\ ~TimerPending(k)
    /\ ~DirOnDisk(j) /\ ~DirOnDisk(k)

\* the archive is open and its entries are being read
ReadingArchive(j) == pc[j] \in {"loop", "mkdir", "open", "streaming"}

\* the extraction directory is being written or read
UsingDir(j) == pc[j] \in {"loop", "mkdir", "open", "streaming", "extracted", "walked", "graph"}

\* C12 as stated: a cleanup of a job is scheduled only when its tree, graph and
\* stats are built, and while a job reads its archive or uses its extraction
\* directory, they are on disk.
C12_NoDeletionInFlight ==
  \A j \in Jobs :
    /\ TimerPending(j) => CleanupScheduled(j)
    /\ ReadingArchive(j) => ArchiveOnDisk(j)
    /\ UsingDir(j) => targetDir[j] \in dirs

(***************************************************************************)
(* Properties of the analysis                                              *)
(***************************************************************************)
TreeBuilt == at \in {"tree", "graph", "stats"}

GraphBuilt == at \in {"graph", "stats"}

StatsBuilt == at = "stats"

\* the lists that hold the paths of s, in every order
Reorderings(s) == {[i \in DOMAIN s |-> s[p[i]]] : p \in Permutations(DOMAIN s)}

\* C13 as stated: whatever the order in which the analyzed paths are given, the
\* tree is the same: same nesting, same children in the same order, same name,
\* type and path on every node.
C13_OrderIndependent ==
  TreeBuilt =>
    \A r \in Reorderings(analyzedFilesAbs) : buildFileTreeFromPaths(rootDir, r) = fileTree

RECURSIVE WellOrdered(_)
WellOrdered(node) ==
  node.type = "folder" =>
    /\ \A i, k \in DOMAIN node.children :
         i < k =>
           /\ node.children[i].type = "file" => node.children[k].type = "file"
           /\ node.children[i].type = node.children[k].type =>
                /\ LocaleCompare(node.children[i].name, node.children[k].name) <= 0
                /\ node.children[i].name # node.children[k].name
    /\ \A i \in DOMAIN node.children : WellOrdered(node.children[i])

\* C14: in the tree that is returned, in every folder the folders come before the
\* files, the children of one type are in ascending order of their names, and no
\* two children have the same name and the same type.
C14_FoldersFirstSorted == TreeBuilt => WellOrdered(fileTree)

\* the root holds a folder and two files, one of which has a name that sorts
\* before the folder's
C14_Witness ==
  /\ TreeBuilt
  /\ \E i, k, m \in DOMAIN fileTree.children :
       /\ fileTree.children[i].type = "folder"
       /\ fileTree.children[k].type = "file"
       /\ fileTree.children[m].type = "file"
       /\ k # m
       /\ LocaleCompare(fileTree.children[k].name, fileTree.children[i].name) < 0

\* the candidates in the order the contract gives them
ClaimedCandidates(base) ==
  << base, base \o JS, base \o JSX, base \o TS, base \o TSX,
     base \o <<SLASH>> \o INDEX \o JS, base \o <<SLASH>> \o INDEX \o JSX,
     base \o <<SLASH>> \o INDEX \o TS, base \o <<SLASH>> \o INDEX \o TSX >>

\* the specifier resolved against the directory of the importing file
ClaimedBase(from, spec) == PosixNormalize(PathDirname(from) \o <<SLASH>> \o spec)

\* the places of the candidates of a call that are known files
Hits(r) ==
  {i \in 1..9 : ClaimedCandidates(ClaimedBase(r.from, r.spec))[i] \in r.known}

EdgeSet == Range(importsGraph.edges)

\* C15: every call of resolveImportToRelativeFile returns the first of base,
\* base.js, base.jsx, base.ts, base.tsx, base/index.js, base/index.jsx,
\* base/index.ts, base/index.tsx that is a known file, and that is then an edge of
\* the graph; when none is known it returns nothing and the specifier gives no edge.
C15_FirstCandidateWins ==
  GraphBuilt =>
    \A r \in resolved :
      LET c == ClaimedCandidates(ClaimedBase(r.from, r.spec))
      IN  /\ Hits(r) = {} =>
               /\ r.target = NULL
               /\ \A e \in EdgeSet : e.source = r.from => e.target \notin Range(c)
          /\ Hits(r) # {} =>
               /\ \E i \in Hits(r) : r.target = c[i] /\ \A k \in Hits(r) : i <= k
               /\ [source |-> r.from, target |-> r.target] \in EdgeSet

\* one specifier has two known candidates and the earlier one is returned; another
\* specifier of the same file has none
C15_Witness ==
  /\ GraphBuilt
  /\ \E r, q \in resolved :
       /\ Cardinality(Hits(r)) >= 2
       /\ r.target # NULL
       /\ q.from = r.from
       /\ q.target = NULL

\* C16: the edge list holds no (source, target) pair twice.
C16_OneEdgePerPair ==
  GraphBuilt =>
    \A i, k \in DOMAIN importsGraph.edges :
      i # k => importsGraph.edges[i] # importsGraph.edges[k]

\* a file names the same target through two spellings and through two of the
\* three syntaxes, and the graph holds the pair once
C16_Witness ==
  /\ GraphBuilt
  /\ \E r, q \in resolved :
       /\ r.from = q.from /\ r.spec # q.spec
       /\ r.target = q.target /\ r.target # NULL
       /\ \E s, t \in Range(fileContent[Abs(r.from)].text) :
            s.spec = r.spec /\ t.spec = q.spec /\ s.kind # t.kind
       /\ Cardinality({i \in DOMAIN importsGraph.edges :
                         importsGraph.edges[i] = [source |-> r.from, target |-> r.target]}) = 1

NodeIds == {importsGraph.nodes[i].id : i \in DOMAIN importsGraph.nodes}

AnalyzedCodeFiles ==
  {p \in Range(analyzedFilesAbs) : ToLowerCase(ExtName(p)) \in {JS, JSX, TS, TSX}}

\* the same files, each file that cannot be read taken as a readable empty file
UnreadableAsEmpty ==
  [p \in DOMAIN fileContent |->
     IF fileContent[p].readable THEN fileContent[p] ELSE Content(TRUE, <<>>)]

\* C17: the nodes are the analyzed files with a code extension, one node each; a
\* file that cannot be read is a node, has no outgoing edge, and the other files
\* are scanned as if it were empty: the edges are those of the same files with
\* each unreadable file empty.
C17_OneNodePerCodeFile ==
  GraphBuilt =>
    /\ NodeIds = {RelPath(rootDir, p) : p \in AnalyzedCodeFiles}
    /\ Len(importsGraph.nodes) = Cardinality(AnalyzedCodeFiles)
    /\ \A p \in AnalyzedCodeFiles :
         ~fileContent[p].readable =>
           \A e \in EdgeSet : e.source # RelPath(rootDir, p)
    /\ importsGraph.edges =
         buildLocalImportsGraph(rootDir, analyzedFilesAbs, UnreadableAsEmpty).edges

\* a file that cannot be read, though its text names a known file, comes first in
\* the list; it is a node, and the file after it has its edge
C17_Witness ==
  /\ StatsBuilt
  /\ \E i, k \in DOMAIN analyzedFilesAbs :
       /\ i < k
       /\ ~fileContent[analyzedFilesAbs[i]].readable
       /\ fileContent[analyzedFilesAbs[i]].text # <<>>
       /\ RelPath(rootDir, analyzedFilesAbs[i]) \in NodeIds
       /\ \E e \in EdgeSet :
            /\ e.source = RelPath(rootDir, analyzedFilesAbs[k])
            /\ e.target = RelPath(rootDir, analyzedFilesAbs[i])

\* C18: both ends of every edge are nodes of the graph; no edge leads to a file
\* under an ignored directory, to a file without a code extension, or out of the
\* project.
C18_EdgesBetweenNodes ==
  GraphBuilt =>
    \A e \in EdgeSet :
      /\ e.source \in NodeIds
      /\ e.target \in NodeIds
      /\ ~IsIgnored(e.target)
      /\ ToLowerCase(ExtName(e.target)) \in {JS, JSX, TS, TSX}
      /\ Abs(e.target) \in Range(analyzedFilesAbs)

\* a file names a file under out/, a .json file, a path above the root and a
\* package; the first two exist in the archive; no edge results
C18_Witness ==
  /\ GraphBuilt
  /\ \E p \in Range(allExtractedFilesAbs) : IsIgnored(RelPath(rootDir, p))
  /\ \E p \in Range(analyzedFilesAbs) : ~IsCodeFile(p) /\ ExtName(p) # <<>>
  /\ \E p \in Range(analyzedFilesAbs) :
       /\ fileContent[p].readable
       /\ \E i \in DOMAIN fileContent[p].text :
            StartsWith(fileContent[p].text[i].spec, <<".", ".", SLASH, "o", "u", "t">>)
  /\ importsGraph.edges = <<>>

\* the edges at a node: those it is the source of and those it is the target of
Degree(id) ==
  Cardinality({i \in DOMAIN importsGraph.edges : importsGraph.edges[i].source = id})
  + Cardinality({i \in DOMAIN importsGraph.edges : importsGraph.edges[i].target = id})

NodeIndex(id) == CHOOSE i \in DOMAIN importsGraph.nodes : importsGraph.nodes[i].id = id

\* a ranks before b: by degree, then by place in the node list
RanksBefore(a, b) ==
  \/ Degree(a) > Degree(b)
  \/ Degree(a) = Degree(b) /\ NodeIndex(a) < NodeIndex(b)

\* C19: topDegree lists min(8, number of nodes) nodes, each with the number of
\* edges it is the source of plus the number it is the target of, in descending
\* order of degree with ties in the order of the node list, and no node left out
\* ranks before a listed one.
C19_TopDegree ==
  StatsBuilt =>
    LET top == stats.graph.topDegree
        listed == {top[i].id : i \in DOMAIN top}
    IN  /\ Len(top) = IF Len(importsGraph.nodes) < 8 THEN Len(importsGraph.nodes) ELSE 8
        /\ \A i \in DOMAIN top :
             top[i].id \in NodeIds /\ top[i].degree = Degree(top[i].id)
        /\ \A i, k \in DOMAIN top : i < k => RanksBefore(top[i].id, top[k].id)
        /\ \A x \in NodeIds \ listed : \A i \in DOMAIN top : RanksBefore(top[i].id, x)

\* nine nodes: one is left out, the first of the list is not the first node, and
\* two listed nodes with the same degree above 0 stand in the order of the nodes
C19_Witness ==
  /\ StatsBuilt
  /\ Len(importsGraph.nodes) = 9
  /\ Len(stats.graph.topDegree) = 8
  /\ stats.graph.topDegree[1].id # importsGraph.nodes[1].id
  /\ \E i \in 1..7 :
       /\ stats.graph.topDegree[i].degree = stats.graph.topDegree[i + 1].degree
       /\ stats.graph.topDegree[i].degree > 0

\* the key a file is counted under
ClaimedExt(p) ==
  IF ToLowerCase(ExtName(RelPath(rootDir, p))) = <<>> THEN NONE
  ELSE ToLowerCase(ExtName(RelPath(rootDir, p)))

RECURSIVE SumCounts(_, _)
SumCounts(counts, keys) ==
  IF keys = {} THEN 0
  ELSE LET k == CHOOSE x \in keys : TRUE
       IN  counts[k] + SumCounts(counts, keys \ {k})

\* C20: exts has one key for each lower-cased extension of an analyzed file, with
\* "(none)" for no extension; its value is the number of analyzed files with it;
\* the values add up to the number of analyzed files.
C20_ExtCounts ==
  StatsBuilt =>
    /\ DOMAIN stats.exts = {ClaimedExt(p) : p \in Range(analyzedFilesAbs)}
    /\ \A k \in DOMAIN stats.exts :
         stats.exts[k] = Cardinality({p \in Range(analyzedFilesAbs) : ClaimedExt(p) = k})
    /\ SumCounts(stats.exts, DOMAIN stats.exts) = Len(analyzedFilesAbs)

\* a .js file and a .JS file are counted under ".js", a file without extension
\* under "(none)"
C20_Witness ==
  /\ StatsBuilt
  /\ \E p \in Range(analyzedFilesAbs) : ExtName(p) = <<".", "J", "S">>
  /\ \E p \in Range(analyzedFilesAbs) : ExtName(p) = JS
  /\ JS \in DOMAIN stats.exts /\ stats.exts[JS] = 2
  /\ NONE \in DOMAIN stats.exts /\ stats.exts[NONE] = 1

\* C23: every local specifier of a readable code file that resolves to a file
\* gives the pair (file, target) in the edge list, whatever the names of the
\* files, names that hold "=>" included.
C23_EdgesComplete ==
  GraphBuilt =>
    \A r \in resolved :
      r.target # NULL => [source |-> r.from, target |-> r.target] \in EdgeSet

(***************************************************************************)
(* Properties of the ignore filter                                         *)
(***************************************************************************)
\* the names of the ignored directories
IgnoredNames == Range(ignoredFolderNames)

\* the file lies under a directory with an ignored name, at any depth
UnderIgnoredDir(relPath) ==
  \E i \in 1..(Len(Split(relPath, SLASH)) - 1) : Split(relPath, SLASH)[i] \in IgnoredNames

\* the paths of the leaves of a tree
RECURSIVE LeafPaths(_)
LeafPaths(node) ==
  IF node.type = "file" THEN {node.path}
  ELSE UNION {LeafPaths(node.children[i]) : i \in DOMAIN node.children}

\* the extracted files that lie under no ignored directory
OutsideIgnoredDirs ==
  {p \in Range(allExtractedFilesAbs) : ~UnderIgnoredDir(RelPath(rootDir, p))}

\* C21: a file under a directory with an ignored name, at any depth, is no leaf
\* of the tree, no node of the graph and no end of an edge, and is not counted:
\* filesCount (the length of analyzedFilesAbs) and each count of exts are at most
\* the number of files outside the ignored directories.
C21_IgnoredNowhere ==
  StatsBuilt =>
    /\ \A p \in Range(allExtractedFilesAbs) :
         UnderIgnoredDir(RelPath(rootDir, p)) =>
           /\ p \notin Range(analyzedFilesAbs)
           /\ RelPath(rootDir, p) \notin LeafPaths(fileTree)
           /\ RelPath(rootDir, p) \notin NodeIds
           /\ \A e \in EdgeSet :
                e.source # RelPath(rootDir, p) /\ e.target # RelPath(rootDir, p)
    /\ Len(analyzedFilesAbs) <= Cardinality(OutsideIgnoredDirs)
    /\ \A k \in DOMAIN stats.exts :
         stats.exts[k] <= Cardinality({p \in OutsideIgnoredDirs : ClaimedExt(p) = k})

\* a file two levels down, under b/out, imports an analyzed file and is imported
\* by one; the tree, the graph and the counts hold only the analyzed files
C21_Witness ==
  /\ StatsBuilt
  /\ \E p \in Range(allExtractedFilesAbs) :
       /\ Len(Split(RelPath(rootDir, p), SLASH)) = 3
       /\ UnderIgnoredDir(RelPath(rootDir, p))
       /\ fileContent[p].text # <<>>
  /\ \E r \in resolved : r.target = NULL /\ Includes(r.spec, <<"o", "u", "t", SLASH>>)
  /\ LeafPaths(fileTree) # {}
  /\ Len(importsGraph.nodes) = 2

\* C24: every extracted file that lies under no ignored directory, a file that is
\* itself called "out" or "build" included, is analyzed, is a leaf of the tree
\* and is counted in exts under its extension.
C24_OnlyIgnoredDropped ==
  StatsBuilt =>
    /\ \A p \in OutsideIgnoredDirs :
         /\ p \in Range(analyzedFilesAbs)
         /\ RelPath(rootDir, p) \in LeafPaths(fileTree)
         /\ ClaimedExt(p) \in DOMAIN stats.exts
    /\ \A k \in DOMAIN stats.exts :
         stats.exts[k] >= Cardinality({p \in OutsideIgnoredDirs : ClaimedExt(p) = k})

====
